---- MODULE Spec2Model ----
(***************************************************************************)
(* Model of GSync's src/config.rs: the Configuration record (four optional *)
(* strings), its pure operations is_empty / empty / is_complete / merge,   *)
(* and the two storage operations get_config and write against the         *)
(* single-row `config` table.                                              *)
(*                                                                         *)
(* Spec      : one owning process calling get_config and write; every      *)
(*             storage step is a separate action that may fail.            *)
(* SpecPure  : the pure operations applied to every pair of records.       *)
(***************************************************************************)
EXTENDS Naturals, Sequences, FiniteSets

VARIABLES
    table,          \* rows of the `config` table, in rowid order
    pc,             \* position of the owning process ("idle" = no call running)
    op,             \* the call running, or the last one to return
    self,           \* the record `&self` of the most recent write call
    acc,            \* get_config's locals client_id .. drive_id decoded so far
    ret,            \* the value returned by the last call
    held,           \* store resources alive in the running call
    interactions,   \* SQL statements sent to the store by the current call
    steps,          \* call-site lines of the storage steps of the current call
    failed,         \* call-site line of the step that failed, 0 if none
    before,         \* what the most recent write call found in the table
    wstatus,        \* outcome of the most recent write call
    ma, mb,         \* arguments of the pure operations
    mout, mrev,     \* merge(ma, mb) and merge(mb, ma)
    cres, eres,     \* is_complete(mout), is_empty(mout)
    pstate          \* position of the pure-operation driver

dbvars   == <<table, pc, op, self, acc, ret, held, interactions, steps, failed,
              before, wstatus>>
purevars == <<ma, mb, mout, mrev, cres, eres, pstate>>
vars     == <<table, pc, op, self, acc, ret, held, interactions, steps, failed,
              before, wstatus, ma, mb, mout, mrev, cres, eres, pstate>>

(***************************************************************************)
(* Bounds                                                                  *)
(***************************************************************************)
NumStoredValues == 1     \* distinct strings the storage operations are run on
NumMergeValues  == 2     \* distinct strings the pure operations are run on
AllValues    == <<"", "x", "y", "z">>
StoredValues == {AllValues[i] : i \in 1..NumStoredValues}
Values       == {AllValues[i] : i \in 1..NumMergeValues}

(***************************************************************************)
(* Option<String> and the Configuration struct                             *)
(***************************************************************************)
None    == <<>>
Some(s) == <<s>>
OptionString(V) == {None} \cup {Some(s) : s \in V}

FieldNames == {"client_id", "client_secret", "input_files", "drive_id"}

Configuration(V) ==
    [client_id : OptionString(V), client_secret : OptionString(V),
     input_files : OptionString(V), drive_id : OptionString(V)]

empty ==
    [client_id |-> None, client_secret |-> None,
     input_files |-> None, drive_id |-> None]

is_empty(c) ==
    /\ c.input_files = None
    /\ c.client_id = None
    /\ c.client_secret = None
    /\ c.drive_id = None

is_complete_driveRequired(c) ==
    IF c.client_id = None THEN <<FALSE, "'client_id' is empty">>
    ELSE IF c.client_secret = None THEN <<FALSE, "'client_secret' is empty">>
    ELSE IF c.input_files = None THEN <<FALSE, "'input_files' is empty">>
    ELSE IF c.drive_id = None THEN <<FALSE, "'drive_id' is empty">>
    ELSE <<TRUE, "">>

is_complete(c) ==
    IF c.client_id = None THEN <<FALSE, "'client_id' is empty">>
    ELSE IF c.client_secret = None THEN <<FALSE, "'client_secret' is empty">>
    ELSE IF c.input_files = None THEN <<FALSE, "'input_files' is empty">>
    ELSE <<TRUE, "">>

merge_secondaryFirst(x, y) ==
    [client_id     |-> IF y.client_id # None THEN y.client_id ELSE x.client_id,
     client_secret |-> IF y.client_secret # None THEN y.client_secret
                       ELSE x.client_secret,
     input_files   |-> IF y.input_files # None THEN y.input_files
                       ELSE x.input_files,
     drive_id      |-> IF y.drive_id # None THEN y.drive_id ELSE x.drive_id]

merge_dropDrive(x, y) ==
    [client_id     |-> IF x.client_id # None THEN x.client_id ELSE y.client_id,
     client_secret |-> IF x.client_secret # None THEN x.client_secret
                       ELSE y.client_secret,
     input_files   |-> IF x.input_files # None THEN x.input_files
                       ELSE y.input_files,
     drive_id      |-> IF x.drive_id # None THEN x.drive_id ELSE None]

merge(x, y) ==
    LET o0 == empty
        o1 == [o0 EXCEPT !.client_id =
                  IF x.client_id # None THEN Some(x.client_id[1])
                  ELSE y.client_id]
        o2 == [o1 EXCEPT !.client_secret =
                  IF x.client_secret # None THEN Some(x.client_secret[1])
                  ELSE y.client_secret]
        o3 == [o2 EXCEPT !.input_files =
                  IF x.input_files # None THEN Some(x.input_files[1])
                  ELSE y.input_files]
        o4 == [o3 EXCEPT !.drive_id =
                  IF x.drive_id # None THEN Some(x.drive_id[1])
                  ELSE y.drive_id]
    IN  o4

(***************************************************************************)
(* The store: SQL values, rows, and the statements the module sends        *)
(***************************************************************************)
SqlNull    == [null |-> TRUE, text |-> ""]
SqlText(s) == [null |-> FALSE, text |-> s]
SqlValue   == {SqlNull} \cup {SqlText(s) : s \in StoredValues}

Row == [client_id : SqlValue, client_secret : SqlValue,
        input_files : SqlValue, drive_id : SqlValue]

\* binding `&Option<String>` as a named parameter
ToSql(o) == IF o = None THEN SqlNull ELSE SqlText(o[1])

\* row.get::<&str, Option<String>>(column)
ColumnGet_emptyAsNone(v) ==
    IF v.null \/ v.text = "" THEN None ELSE Some(v.text)

ColumnGet(v) == IF v.null THEN None ELSE Some(v.text)

BindParams_swapped(c) ==
    [client_id     |-> ToSql(c.client_secret),
     client_secret |-> ToSql(c.client_id),
     input_files   |-> ToSql(c.input_files),
     drive_id      |-> ToSql(c.drive_id)]

BindParams(c) ==
    [client_id     |-> ToSql(c.client_id),
     client_secret |-> ToSql(c.client_secret),
     input_files   |-> ToSql(c.input_files),
     drive_id      |-> ToSql(c.drive_id)]

\* "DELETE FROM config"
DeleteAll_keep(t) == t

DeleteAll(t) == <<>>

\* what a write of record c finds in table t when it starts
Found(t, c) ==
    IF t = <<>> THEN "empty"
    ELSE IF t = <<BindParams(c)>> THEN "same" ELSE "other"

\* "INSERT INTO config (...) VALUES (...)"
InsertRow(t, r) == Append(t, r)

(***************************************************************************)
(* Results                                                                 *)
(***************************************************************************)
NoRet    == [kind |-> "None", value |-> <<>>, error |-> "", line |-> 0]
Ok(v)    == [kind |-> "Ok", value |-> v, error |-> "", line |-> 0]
Unit     == <<>>
DbErr(l) == [kind |-> "Err", value |-> <<>>, error |-> "DatabaseError",
             line |-> l]

\* leaving the function: the locals conn, stmt and result are dropped
Return(r) ==
    /\ pc' = "idle"
    /\ ret' = r
    /\ held' = {}

\* unwrap_db_err!(e): the value of e, or an early return of the error
unwrap_db_err(ok, l, cont) ==
    IF ok THEN cont ELSE Return(DbErr(l))

\* every storage step records its call site, and its failure
Step(ok, l) ==
    /\ steps' = Append(steps, l)
    /\ failed' = IF ok THEN failed ELSE l

\* the arms of `match result.next()` in get_config
OnNoRow_err == DbErr(100)

OnNoRow == Ok(<<empty>>)

OnNextErr_swallow == Ok(<<empty>>)

OnNextErr == DbErr(101)

(***************************************************************************)
(* Initial state: the store a run finds is empty (first run) or holds the  *)
(* row of an earlier run.                                                  *)
(***************************************************************************)
InitPure ==
    /\ ma = empty /\ mb = empty
    /\ mout = empty /\ mrev = empty
    /\ cres = <<FALSE, "">> /\ eres = FALSE
    /\ pstate = "init"

InitDb ==
    /\ pc = "idle"
    /\ op = "none"
    /\ self = empty
    /\ acc = empty
    /\ ret = NoRet
    /\ held = {}
    /\ interactions = 0
    /\ steps = <<>>
    /\ failed = 0
    /\ before = "none"
    /\ wstatus = "none"

Init ==
    /\ table \in {<<>>} \cup {<<BindParams(c)>> : c \in Configuration(StoredValues)}
    /\ InitDb
    /\ InitPure

(***************************************************************************)
(* get_config                                                              *)
(***************************************************************************)
CallGetConfig ==
    /\ pc = "idle"
    /\ pc' = "g_conn"
    /\ op' = "get_config"
    /\ acc' = empty
    /\ ret' = NoRet
    /\ interactions' = 0
    /\ steps' = <<>>
    /\ failed' = 0
    /\ UNCHANGED <<table, self, held, before, wstatus>>
    /\ UNCHANGED purevars

GetConn ==
    /\ pc = "g_conn"
    /\ \E ok \in BOOLEAN :
          /\ Step(ok, 86)
          /\ unwrap_db_err(ok, 86,
                 pc' = "g_prepare" /\ held' = held \cup {"conn"} /\ ret' = ret)
    /\ UNCHANGED <<table, op, self, acc, interactions, before, wstatus>>
    /\ UNCHANGED purevars

GetPrepare ==
    /\ pc = "g_prepare"
    /\ \E ok \in BOOLEAN :
          /\ Step(ok, 88)
          /\ unwrap_db_err(ok, 88,
                 pc' = "g_query" /\ held' = held \cup {"stmt"} /\ ret' = ret)
    /\ UNCHANGED <<table, op, self, acc, interactions, before, wstatus>>
    /\ UNCHANGED purevars

GetQuery ==
    /\ pc = "g_query"
    /\ interactions' = interactions + 1
    /\ \E ok \in BOOLEAN :
          /\ Step(ok, 89)
          /\ unwrap_db_err(ok, 89,
                 pc' = "g_next" /\ held' = held \cup {"result"} /\ ret' = ret)
    /\ UNCHANGED <<table, op, self, acc, before, wstatus>>
    /\ UNCHANGED purevars

GetNext ==
    /\ pc = "g_next"
    /\ \E ok \in BOOLEAN :
          /\ Step(ok, 101)
          /\ IF ~ok THEN Return(OnNextErr)
             ELSE IF table = <<>> THEN Return(OnNoRow)
             ELSE pc' = "g_client_id" /\ UNCHANGED <<ret, held>>
    /\ UNCHANGED <<table, op, self, acc, interactions, before, wstatus>>
    /\ UNCHANGED purevars

GetClientId ==
    /\ pc = "g_client_id"
    /\ \E ok \in BOOLEAN :
          /\ Step(ok, 93)
          /\ unwrap_db_err(ok, 93,
                 pc' = "g_client_secret" /\ UNCHANGED <<held, ret>>)
          /\ acc' = IF ok
                    THEN [acc EXCEPT !.client_id = ColumnGet(table[1].client_id)]
                    ELSE empty
    /\ UNCHANGED <<table, op, self, interactions, before, wstatus>>
    /\ UNCHANGED purevars

GetClientSecret ==
    /\ pc = "g_client_secret"
    /\ \E ok \in BOOLEAN :
          /\ Step(ok, 94)
          /\ unwrap_db_err(ok, 94,
                 pc' = "g_input_files" /\ UNCHANGED <<held, ret>>)
          /\ acc' = IF ok
                    THEN [acc EXCEPT !.client_secret = ColumnGet(table[1].client_secret)]
                    ELSE empty
    /\ UNCHANGED <<table, op, self, interactions, before, wstatus>>
    /\ UNCHANGED purevars

GetInputFiles ==
    /\ pc = "g_input_files"
    /\ \E ok \in BOOLEAN :
          /\ Step(ok, 95)
          /\ unwrap_db_err(ok, 95,
                 pc' = "g_drive_id" /\ UNCHANGED <<held, ret>>)
          /\ acc' = IF ok
                    THEN [acc EXCEPT !.input_files = ColumnGet(table[1].input_files)]
                    ELSE empty
    /\ UNCHANGED <<table, op, self, interactions, before, wstatus>>
    /\ UNCHANGED purevars

GetDriveId ==
    /\ pc = "g_drive_id"
    /\ \E ok \in BOOLEAN :
          /\ Step(ok, 96)
          /\ unwrap_db_err(ok, 96,
                 Return(Ok(<<[acc EXCEPT
                     !.drive_id = ColumnGet(table[1].drive_id)]>>)))
          /\ acc' = empty
    /\ UNCHANGED <<table, op, self, interactions, before, wstatus>>
    /\ UNCHANGED purevars

(***************************************************************************)
(* write                                                                   *)
(***************************************************************************)
CallWrite ==
    /\ pc = "idle"
    /\ \E c \in Configuration(StoredValues) : self' = c /\ before' = Found(table, c)
    /\ pc' = "w_conn"
    /\ op' = "write"
    /\ ret' = NoRet
    /\ interactions' = 0
    /\ steps' = <<>>
    /\ failed' = 0
    /\ wstatus' = "running"
    /\ UNCHANGED <<table, acc, held>>
    /\ UNCHANGED purevars

WriteConn ==
    /\ pc = "w_conn"
    /\ \E ok \in BOOLEAN :
          /\ Step(ok, 110)
          /\ unwrap_db_err(ok, 110,
                 pc' = "w_delete" /\ held' = held \cup {"conn"} /\ ret' = ret)
          /\ wstatus' = IF ok THEN wstatus ELSE "err"
    /\ UNCHANGED <<table, op, self, acc, interactions, before>>
    /\ UNCHANGED purevars

WriteDelete ==
    /\ pc = "w_delete"
    /\ interactions' = interactions + 1
    /\ \E ok \in BOOLEAN :
          /\ Step(ok, 112)
          /\ unwrap_db_err(ok, 112,
                 pc' = "w_insert" /\ UNCHANGED <<held, ret>>)
          /\ table' = IF ok THEN DeleteAll(table) ELSE table
          /\ wstatus' = IF ok THEN wstatus ELSE "err"
    /\ UNCHANGED <<op, self, acc, before>>
    /\ UNCHANGED purevars

WriteInsert ==
    /\ pc = "w_insert"
    /\ interactions' = interactions + 1
    /\ \E ok \in BOOLEAN :
          /\ Step(ok, 114)
          /\ unwrap_db_err(ok, 114, Return(Ok(Unit)))
          /\ table' = IF ok THEN InsertRow(table, BindParams(self)) ELSE table
          /\ wstatus' = IF ok THEN "ok" ELSE "err"
    /\ UNCHANGED <<op, self, acc, before>>
    /\ UNCHANGED purevars

Next ==
    \/ CallGetConfig
    \/ GetConn
    \/ GetPrepare
    \/ GetQuery
    \/ GetNext
    \/ GetClientId
    \/ GetClientSecret
    \/ GetInputFiles
    \/ GetDriveId
    \/ CallWrite
    \/ WriteConn
    \/ WriteDelete
    \/ WriteInsert

Spec == Init /\ [][Next]_vars

(***************************************************************************)
(* The pure operations, applied to every pair of records                   *)
(***************************************************************************)
InitP ==
    /\ table = <<>>
    /\ InitDb
    /\ ma \in Configuration(Values)
    /\ mb \in Configuration(Values)
    /\ mout = empty /\ mrev = empty
    /\ cres = <<FALSE, "">> /\ eres = FALSE
    /\ pstate = "init"

DoMerge ==
    /\ pstate = "init"
    /\ mout' = merge(ma, mb)
    /\ mrev' = merge(mb, ma)
    /\ pstate' = "merged"
    /\ UNCHANGED <<ma, mb, cres, eres>>
    /\ UNCHANGED dbvars

DoIsComplete ==
    /\ pstate = "merged"
    /\ cres' = is_complete(mout)
    /\ pstate' = "checked"
    /\ UNCHANGED <<ma, mb, mout, mrev, eres>>
    /\ UNCHANGED dbvars

DoIsEmpty ==
    /\ pstate = "checked"
    /\ eres' = is_empty(mout)
    /\ pstate' = "done"
    /\ UNCHANGED <<ma, mb, mout, mrev, cres>>
    /\ UNCHANGED dbvars

NextP ==
    \/ DoMerge
    \/ DoIsComplete
    \/ DoIsEmpty

SpecPure == InitP /\ [][NextP]_vars

(***************************************************************************)
(* Type invariant                                                          *)
(***************************************************************************)
TypeOK ==
    /\ table \in Seq(Row)
    /\ self \in Configuration(StoredValues)
    /\ acc \in Configuration(StoredValues)
    /\ held \subseteq {"conn", "stmt", "result"}
    /\ wstatus \in {"none", "running", "ok", "err"}
    /\ before \in {"none", "empty", "same", "other"}
    /\ ret.kind \in {"None", "Ok", "Err"}

(***************************************************************************)
(* Properties of the storage operations (checked under Spec)               *)
(***************************************************************************)

\* C1: write replaces the singleton row atomically: if the table held a row
\* when a write call started, the table is not empty in any state during or
\* after that call, also when INSERT fails after DELETE succeeded.
C1_AtomicReplace ==
    before \in {"same", "other"} => table # <<>>

C3_RoundTrip ==
    (op = "get_config" /\ pc = "idle" /\ ret.kind = "Ok" /\ wstatus = "ok")
        => /\ Len(ret.value) = 1
           /\ \A f \in FieldNames : ret.value[1][f] = self[f]

C3_Witness ==
    /\ op = "get_config" /\ pc = "idle" /\ ret.kind = "Ok" /\ wstatus = "ok"
    /\ self.client_id = <<"">>
    /\ self.client_secret # <<>>
    /\ self.input_files # <<>>
    /\ self.drive_id = <<>>
    /\ ret.value = <<self>>

\* C4: last write wins without duplication: once a write call has returned
\* Ok, whatever the table held before, the table holds exactly one row, that
\* row carries the four values of the record written (NULL for an absent
\* field), and a get_config that returns Ok returns that record.
C4_LastWriteWins ==
    wstatus = "ok" =>
        /\ Len(table) = 1
        /\ \A f \in FieldNames :
              /\ table[1][f].null <=> (self[f] = <<>>)
              /\ ~table[1][f].null => self[f] = <<table[1][f].text>>
        /\ (op = "get_config" /\ pc = "idle" /\ ret.kind = "Ok")
              => ret.value = <<self>>

C4_Witness ==
    /\ wstatus = "ok"
    /\ before = "other"
    /\ op = "get_config" /\ pc = "idle" /\ ret.kind = "Ok"
    /\ ret.value = <<self>>
    /\ self.client_id # self.client_secret

C8_ErrorsPropagate ==
    /\ failed # 0 =>
          /\ pc = "idle"
          /\ ret.kind = "Err"
          /\ ret.error = "DatabaseError"
          /\ ret.line = failed
          /\ Len(steps) > 0
          /\ steps[Len(steps)] = failed
    /\ \A i, j \in 1..Len(steps) : i # j => steps[i] # steps[j]
    /\ ret.kind = "Err" => failed # 0

C8_Witness ==
    /\ op = "write"
    /\ failed = 112
    /\ steps = <<110, 112>>
    /\ pc = "idle"
    /\ ret.kind = "Err"

\* C9: each call issues at most one store interaction, and no store resource
\* is held once the call has returned.
C9_OneInteraction ==
    /\ interactions <= 1
    /\ pc = "idle" => held = {}

(***************************************************************************)
(* Properties of the pure operations (checked under SpecPure)              *)
(***************************************************************************)

\* C6: merge is field-wise precedence: each field of merge(a, b) is a's value
\* if a's field is present, otherwise b's; merge(A, empty()) = A and
\* merge(empty(), B) = B.
C6_MergeFieldwise ==
    pstate # "init" =>
        /\ \A f \in FieldNames :
              mout[f] = IF ma[f] # <<>> THEN ma[f] ELSE mb[f]
        /\ (\A f \in FieldNames : mb[f] = <<>>) => mout = ma
        /\ (\A f \in FieldNames : ma[f] = <<>>) => mout = mb

C6_Witness ==
    /\ pstate = "merged"
    /\ ma.client_id = <<"x">> /\ mb.client_id = <<"">>
    /\ mout.client_id = <<"x">>
    /\ ma.drive_id = <<>> /\ mb.drive_id = <<"x">>
    /\ mout.drive_id = <<"x">>

RequiredOrder == <<"client_id", "client_secret", "input_files">>

ReasonOf ==
    [client_id     |-> "'client_id' is empty",
     client_secret |-> "'client_secret' is empty",
     input_files   |-> "'input_files' is empty"]

\* C7: is_complete returns (true, "") iff client_id, client_secret and
\* input_files are all present, whatever drive_id is; otherwise it returns
\* false with the reason of the first absent field in the order client_id,
\* client_secret, input_files.
C7_IsComplete ==
    pstate \in {"checked", "done"} =>
        /\ (cres = <<TRUE, "">>)
              <=> (\A i \in 1..3 : mout[RequiredOrder[i]] # <<>>)
        /\ \A i \in 1..3 :
              (/\ mout[RequiredOrder[i]] = <<>>
               /\ \A j \in 1..(i - 1) : mout[RequiredOrder[j]] # <<>>)
                  => cres = <<FALSE, ReasonOf[RequiredOrder[i]]>>

C7_Witness ==
    /\ pstate = "checked"
    /\ mout.client_id # <<>>
    /\ mout.client_secret = <<>>
    /\ mout.input_files = <<>>
    /\ mout.drive_id = <<>>
    /\ cres = <<FALSE, "'client_secret' is empty">>

Disjoint(x, y) ==
    \A f \in FieldNames : x[f] = <<>> \/ y[f] = <<>>

Agree(x, y) ==
    \A f \in FieldNames : (x[f] # <<>> /\ y[f] # <<>>) => x[f] = y[f]

\* C10 as stated: merge(A, B) = merge(B, A) holds when A and B are disjoint
\* and does not hold when they are not.
C10_CommutesIffDisjoint ==
    pstate # "init" => ((mout = mrev) <=> Disjoint(ma, mb))

\* C10 amended: merge(A, B) = merge(B, A) holds exactly when every field
\* present in both A and B has the same value in both; in particular it holds
\* for disjoint inputs, and it fails when a shared field differs.
C10_CommutesIffAgree ==
    pstate # "init" => ((mout = mrev) <=> Agree(ma, mb))

C10_Witness ==
    /\ pstate = "merged"
    /\ ~Disjoint(ma, mb)
    /\ Agree(ma, mb)
    /\ ma # mb
    /\ mout = mrev

====
